---------------------------- MODULE Spec2Model ----------------------------
(***************************************************************************)
(* Model of app.py (material stress-strain analyser).                      *)
(*                                                                         *)
(* Numbers.  numpy's floating-point values are modelled by exact rationals *)
(* [n |-> numerator, d |-> denominator > 0] in lowest terms; NaN and Inf   *)
(* are outside the model.  An input strain sample x stands for the strain  *)
(* x/2500 (so 0.002 is 5) and an input stress sample s for s*2500 MPa;     *)
(* with these units the code's constants become 32-bit integers:           *)
(*     youngs_modulus*1e9*(strain-0.002)  ==  youngs_modulus*160*(x-5)     *)
(*     np.trapz(stress, strain)           ==  sum of dx*(s+s')/2           *)
(* The values of the returned mapping are in the code's own units (GPa,    *)
(* MPa, strain, MJ/m^3).                                                   *)
(***************************************************************************)
EXTENDS Integers, Sequences, FiniteSets, TLC

VARIABLES strain, stress, pc, results, chart, current_data, req

vars == <<strain, stress, pc, results, chart, current_data, req>>

-----------------------------------------------------------------------------
(* Exact rational arithmetic standing for numpy float64 arithmetic.        *)

Abs(i) == IF i < 0 THEN -i ELSE i

Min(a, b) == IF a < b THEN a ELSE b

RECURSIVE GCD(_, _)
GCD(a, b) == IF b = 0 THEN a ELSE GCD(b, a % b)

LCM(a, b) == (a \div GCD(a, b)) * b

RNorm(n, d) ==
    LET g == GCD(Abs(n), d) IN [n |-> n \div g, d |-> d \div g]

R(i) == [n |-> i, d |-> 1]

RAdd(a, b) ==
    LET l == LCM(a.d, b.d)
    IN RNorm(a.n * (l \div a.d) + b.n * (l \div b.d), l)

RNeg(a) == [n |-> -a.n, d |-> a.d]

RSub(a, b) == RAdd(a, RNeg(b))

RMulInt(a, k) == RNorm(a.n * k, a.d)

RDivInt(a, k) == RNorm(a.n, a.d * k)

RAbs(a) == [n |-> Abs(a.n), d |-> a.d]

RLess(a, b) ==
    LET l == LCM(a.d, b.d)
    IN a.n * (l \div a.d) < b.n * (l \div b.d)

\* a / b for rationals, b # 0
RDiv(a, b) ==
    IF b.n > 0 THEN RDivInt(RMulInt(a, b.d), b.n)
    ELSE RDivInt(RMulInt(a, -b.d), -b.n)

\* PyMax without the comparison: the value is not clamped
PyMaxFirst(a, b) == a

\* Python's max(a, b): b only when b > a
PyMax(a, b) == IF RLess(a, b) THEN b ELSE a

RECURSIVE RSum(_, _)
\* a[1] + ... + a[k] of a sequence of rationals
RSum(a, k) == IF k = 0 THEN R(0) ELSE RAdd(RSum(a, k - 1), a[k])

RECURSIVE ISum(_, _)
\* a[1] + ... + a[k] of a sequence of integers
ISum(a, k) == IF k = 0 THEN 0 ELSE ISum(a, k - 1) + a[k]

-----------------------------------------------------------------------------
(* numpy arrays: a value is None or a 1-d array.                           *)

None == [none |-> TRUE, a |-> <<>>]

Arr(s) == [none |-> FALSE, a |-> s]

\* the elements of a selected by the boolean mask (a[mask]); lengths agree
RECURSIVE MaskSelect(_, _, _)
MaskSelect(a, mask, k) ==
    IF k = 0 THEN <<>>
    ELSE IF mask[k] THEN Append(MaskSelect(a, mask, k - 1), a[k])
    ELSE MaskSelect(a, mask, k - 1)

\* a[:k]
Take(a, k) == SubSeq(a, 1, Min(k, Len(a)))

\* np.argmax: the first index of a maximum (1-based), a not empty
RECURSIVE ArgMaxUpTo(_, _)
ArgMaxUpTo(a, k) ==
    IF k = 1 THEN 1
    ELSE LET j == ArgMaxUpTo(a, k - 1)
         IN IF RLess(a[j], a[k]) THEN k ELSE j

ArgMax(a) == ArgMaxUpTo(a, Len(a))

\* np.argmin: the first index of a minimum (1-based), a not empty
RECURSIVE ArgMinUpTo(_, _)
ArgMinUpTo(a, k) ==
    IF k = 1 THEN 1
    ELSE LET j == ArgMinUpTo(a, k - 1)
         IN IF RLess(a[k], a[j]) THEN k ELSE j

ArgMin(a) == ArgMinUpTo(a, Len(a))

\* np.max, a not empty
NpMax(a) == a[ArgMax(a)]

-----------------------------------------------------------------------------
(* scipy.signal.savgol_filter(stress, window, 3), mode 'interp': every     *)
(* output sample is the least-squares cubic through a window of `window`   *)
(* consecutive input samples, evaluated at the sample's place in it: the   *)
(* window is centred on the sample in the interior and is the first (last) *)
(* window for the first (last) window \div 2 samples.                      *)

RECURSIVE PowSum(_, _)
\* the sum of t^k over t in -h..h, for k in {2, 4, 6}
PowSum(h, k) ==
    IF h = 0 THEN 0
    ELSE PowSum(h - 1, k)
         + 2 * (IF k = 2 THEN h * h
                ELSE IF k = 4 THEN h * h * h * h
                ELSE h * h * h * h * h * h)

\* numerators of the cubic's projection: even part (basis 1, t^2) over
\* s0*s4 - s2^2, odd part (basis t, t^3) over s2*s6 - s4^2
EvenW(p, t, s0, s2, s4) == s4 - s2 * (p * p + t * t) + s0 * p * p * t * t

OddW(p, t, s2, s4, s6) ==
    s6 * p * t - s4 * (p * t * t * t + p * p * p * t) + s2 * p * p * p * t * t * t

RECURSIVE EvenSum(_, _, _, _, _, _, _, _)
EvenSum(y, start, p, h, j, s0, s2, s4) ==
    IF j = 0 THEN 0
    ELSE EvenSum(y, start, p, h, j - 1, s0, s2, s4)
         + EvenW(p, j - h - 1, s0, s2, s4) * y[start + j]

RECURSIVE OddSum(_, _, _, _, _, _, _, _)
OddSum(y, start, p, h, j, s2, s4, s6) ==
    IF j = 0 THEN 0
    ELSE OddSum(y, start, p, h, j - 1, s2, s4, s6)
         + OddW(p, j - h - 1, s2, s4, s6) * y[start + j]

savgol_filter(y, window) ==
    LET h  == (window - 1) \div 2
        s0 == window
        s2 == PowSum(h, 2)
        s4 == PowSum(h, 4)
        s6 == PowSum(h, 6)
        m  == Len(y)
        Start(i) == IF i - h - 1 < 0 THEN 0
                    ELSE IF i - h - 1 > m - window THEN m - window
                    ELSE i - h - 1
    IN [i \in 1..m |->
          LET st == Start(i)
              p  == i - 1 - st - h
          IN RAdd(RNorm(EvenSum(y, st, p, h, window, s0, s2, s4),
                        s0 * s4 - s2 * s2),
                  RNorm(OddSum(y, st, p, h, window, s2, s4, s6),
                        s2 * s6 - s4 * s4))]

\* lines 47-50: the window the code asks for
WindowSize(m) ==
    LET w == Min(11, m) IN IF w % 2 = 0 THEN w - 1 ELSE w

\* lines 46-56: stress_smooth
StressSmooth(st) ==
    IF Len(st) > 10
    THEN IF WindowSize(Len(st)) >= 3
         THEN savgol_filter(st, WindowSize(Len(st)))
         ELSE [i \in 1..Len(st) |-> R(st[i])]
    ELSE [i \in 1..Len(st) |-> R(st[i])]

-----------------------------------------------------------------------------
(* np.polyfit(x, y, 1)[0]: the least-squares slope.  numpy scales the two  *)
(* columns of the design matrix and solves by SVD: with all x equal and    *)
(* not 0 the columns coincide and the minimum-norm solution has slope      *)
(* mean(y)/(2x); with all x equal to 0 the scaled column is 0/0 and lstsq  *)
(* raises LinAlgError.                                                     *)

\* polyfit raising on every singular fit (all x equal)
polyfitSingularRaises(x, y) ==
    LET n   == Len(x)
        sx  == ISum(x, n)
        sxx == ISum([i \in 1..n |-> x[i] * x[i]], n)
        sy  == RSum(y, n)
        sxy == RSum([i \in 1..n |-> RMulInt(y[i], x[i])], n)
        den == n * sxx - sx * sx
    IN IF den # 0
       THEN [raised |-> FALSE,
             slope  |-> RDiv(RSub(RMulInt(sxy, n), RMulInt(sy, sx)), R(den))]
       ELSE [raised |-> TRUE, slope |-> R(0)]

polyfit(x, y) ==
    LET n   == Len(x)
        sx  == ISum(x, n)
        sxx == ISum([i \in 1..n |-> x[i] * x[i]], n)
        sy  == RSum(y, n)
        sxy == RSum([i \in 1..n |-> RMulInt(y[i], x[i])], n)
        den == n * sxx - sx * sx
    IN IF den # 0
       THEN [raised |-> FALSE,
             slope  |-> RDiv(RSub(RMulInt(sxy, n), RMulInt(sy, sx)), R(den))]
       ELSE IF x[1] = 0
       THEN [raised |-> TRUE, slope |-> R(0)]
       ELSE [raised |-> FALSE, slope |-> RDiv(sy, R(2 * n * x[1]))]

-----------------------------------------------------------------------------
(* calculate_material_properties, lines 37-107.                            *)

\* 0.002 in strain units of 1/2500 (lines 59, 70, 72)
ElasticLimit == 5

\* line 60: more than this many elastic samples are needed for a fit
MinElasticCount == 5

\* lines 61-62: at most this many elastic samples enter the fit
MaxFitSamples == 10

\* line 66: the modulus (GPa) used when the fit is skipped
DefaultModulus == 200

PropertyNames ==
    {"elastic_modulus", "yield_strength", "tensile_strength",
     "fracture_strain", "toughness"}

\* lines 92-98 and 101-107: the returned mapping
PropertyResult(e, y, t, f, g) ==
    [k \in PropertyNames |->
       IF k = "elastic_modulus" THEN [value |-> e, unit |-> "GPa"]
       ELSE IF k = "yield_strength" THEN [value |-> y, unit |-> "MPa"]
       ELSE IF k = "tensile_strength" THEN [value |-> t, unit |-> "MPa"]
       ELSE IF k = "fracture_strain" THEN [value |-> f, unit |-> ""]
       ELSE [value |-> g, unit |-> "MJ/m3"]]

\* lines 101-107
Fallback == PropertyResult(R(200), R(400), R(500), RNorm(15, 100), R(80))

\* a stress in input units (2500 MPa) as MPa
ToMPa(v) == RMulInt(v, 2500)

\* a strain in input units (1/2500) as a strain
ToStrain(x) == RNorm(x, 2500)

\* line 59: elastic_region = strain <= 0.002
ElasticRegion(x) == [i \in 1..Len(x) |-> x[i] <= ElasticLimit]

\* line 72: valid_indices = strain > 0.002
ValidIndices(x) == [i \in 1..Len(x) |-> x[i] > ElasticLimit]

\* np.sum / np.any of a mask
CountTrue(mask) == Cardinality({i \in 1..Len(mask) : mask[i]})

\* FitUsed with >= for >: five elastic samples already fitted
FitUsedFromFive(x) == CountTrue(ElasticRegion(x)) >= MinElasticCount

\* line 60
FitUsed(x) == CountTrue(ElasticRegion(x)) > MinElasticCount

\* lines 58-66: youngs_modulus in GPa.  The slope of stress (2500 MPa) per
\* strain unit (1/2500) is 6.25e6 times smaller than the slope per strain,
\* so slope / 1e9 is the model's slope / 160.  A boolean mask of another
\* length than the array it indexes raises IndexError.
YoungsModulus(x, ss) ==
    IF FitUsed(x)
    THEN IF Len(ss) # Len(x)
         THEN [raised |-> TRUE, value |-> R(0)]
         ELSE LET mask == ElasticRegion(x)
                  ex   == Take(MaskSelect(x, mask, Len(x)), MaxFitSamples)
                  es   == Take(MaskSelect(ss, mask, Len(x)), MaxFitSamples)
                  fit  == polyfit(ex, es)
              IN [raised |-> fit.raised, value |-> RDivInt(fit.slope, 160)]
    ELSE [raised |-> FALSE, value |-> R(DefaultModulus)]

\* line 70: offset_line = youngs_modulus * 1e9 * (strain - 0.002)
OffsetLine(x, ym) ==
    [i \in 1..Len(x) |-> RMulInt(RMulInt(ym, 160), x[i] - ElasticLimit)]

\* lines 78 and 80: np.max(stress_smooth) * 0.8; np.max of an empty array
\* raises.  `caught` says whether line 79's except is running.
EightyPercentOfMax(ss, caught) ==
    IF Len(ss) = 0 THEN [raised |-> TRUE, caught |-> caught, value |-> R(0)]
    ELSE [raised |-> FALSE, caught |-> caught,
          value |-> RDivInt(RMulInt(NpMax(ss), 8), 10)]

\* YieldStrength with the argmin taken over all samples, not the valid ones
YieldStrengthUnmasked(x, ss, ym) ==
    LET n == Len(x)
        m == Len(ss)
    IN IF m # n
       THEN EightyPercentOfMax(ss, TRUE)
       ELSE LET off   == OffsetLine(x, ym)
                diff  == [i \in 1..n |-> RAbs(RSub(ss[i], off[i]))]
                valid == ValidIndices(x)
            IN IF CountTrue(valid) > 0
               THEN [raised |-> FALSE, caught |-> FALSE,
                     value |-> ss[ArgMin(diff)]]
               ELSE EightyPercentOfMax(ss, FALSE)

\* lines 68-80: the yield strength, in input stress units.  stress_smooth
\* (m samples) and offset_line (n samples) broadcast when m = n or one of
\* them is 1; the mask valid_indices (n samples) indexes only arrays of n
\* samples.  Every exception of lines 70-78 is caught at line 79.
YieldStrength(x, ss, ym) ==
    LET n == Len(x)
        m == Len(ss)
    IN IF m # n /\ m # 1 /\ n # 1
       THEN EightyPercentOfMax(ss, TRUE)
       ELSE LET off   == OffsetLine(x, ym)
                k     == IF n = 1 THEN m ELSE n
                diff  == [i \in 1..k |->
                            RAbs(RSub(ss[IF m = 1 THEN 1 ELSE i],
                                      off[IF n = 1 THEN 1 ELSE i]))]
                valid == ValidIndices(x)
            IN IF CountTrue(valid) > 0
               THEN IF k # n \/ m # n
                    THEN EightyPercentOfMax(ss, TRUE)
                    ELSE LET idx == ArgMin(MaskSelect(diff, valid, n))
                         IN [raised |-> FALSE, caught |-> FALSE,
                             value |-> MaskSelect(ss, valid, n)[idx]]
               ELSE EightyPercentOfMax(ss, FALSE)

\* lines 85-87: fracture_strain = strain[argmax(stress_smooth)]
FractureStrain(x, ss) ==
    IF Len(ss) = 0 \/ ArgMax(ss) > Len(x)
    THEN [raised |-> TRUE, value |-> 0]
    ELSE [raised |-> FALSE, value |-> x[ArgMax(ss)]]

\* trapz as a left Riemann sum: y[i] for the mean of y[i] and y[i+1]
trapzLeft(y, x) ==
    LET nd == IF Len(x) = 0 THEN 0 ELSE Len(x) - 1
        na == IF Len(y) = 0 THEN 0 ELSE Len(y) - 1
    IN IF nd = na
       THEN [raised |-> FALSE,
             value |-> RSum([i \in 1..nd |-> RMulInt(y[i], x[i + 1] - x[i])], nd)]
       ELSE [raised |-> TRUE, value |-> R(0)]

\* np.trapz(y, x): d = diff(x) times the means of neighbouring y, summed;
\* the two arrays broadcast when their lengths agree or one of them is 1
trapz(y, x) ==
    LET nd  == IF Len(x) = 0 THEN 0 ELSE Len(x) - 1
        na  == IF Len(y) = 0 THEN 0 ELSE Len(y) - 1
        d   == [i \in 1..nd |-> x[i + 1] - x[i]]
        avg == [i \in 1..na |-> RDivInt(RAdd(y[i], y[i + 1]), 2)]
    IN IF nd = na
       THEN [raised |-> FALSE,
             value |-> RSum([i \in 1..nd |-> RMulInt(avg[i], d[i])], nd)]
       ELSE IF nd = 1
       THEN [raised |-> FALSE,
             value |-> RSum([i \in 1..na |-> RMulInt(avg[i], d[1])], na)]
       ELSE IF na = 1
       THEN [raised |-> FALSE,
             value |-> RSum([i \in 1..nd |-> RMulInt(avg[1], d[i])], nd)]
       ELSE [raised |-> TRUE, value |-> R(0)]

\* line 90: the divisor of the integral
ToughnessDivisor == 1000000

\* line 90: toughness = np.trapz(stress_smooth, strain) / 1e6; a product of
\* input units is 2500 MPa * 1/2500 = 1 MPa
Toughness(x, ss) ==
    LET t == trapz(ss, x)
    IN [raised |-> t.raised, value |-> RDivInt(t.value, ToughnessDivisor)]

\* the guard with 1 for 2: a single sample is computed
DataInsufficientBelowOne(sn, st) == sn.none \/ st.none \/ Len(sn.a) < 1

\* line 41: the guard of the computation
DataInsufficient(sn, st) == sn.none \/ st.none \/ Len(sn.a) < 2

FallbackOutcome ==
    [res |-> Fallback, path |-> "fallback", caught |-> FALSE]

\* lines 37-107.  res is the returned mapping; path and caught record which
\* return statement produced it and whether line 79's except ran.
calculate_material_properties(sn, st) ==
    IF DataInsufficient(sn, st) THEN FallbackOutcome
    ELSE
    LET x  == sn.a
        ss == StressSmooth(st.a)
        ym == YoungsModulus(x, ss)
    IN IF ym.raised THEN FallbackOutcome
       ELSE
       LET ys == YieldStrength(x, ss, ym.value)
       IN IF ys.raised THEN FallbackOutcome
          ELSE
          LET fs == FractureStrain(x, ss)
          IN IF fs.raised THEN FallbackOutcome
             ELSE
             LET tg == Toughness(x, ss)
             IN IF tg.raised THEN FallbackOutcome
                ELSE [res |-> PropertyResult(
                                PyMax(ym.value, R(0)),
                                PyMax(ToMPa(ys.value), R(0)),
                                PyMax(ToMPa(NpMax(ss)), R(0)),
                                PyMax(ToStrain(fs.value), R(0)),
                                PyMax(tg.value, R(0))),
                      path |-> "computed",
                      caught |-> ys.caught]

-----------------------------------------------------------------------------
(* generate_stress_strain_chart, lines 109-191: which image is returned.   *)
(* plt.plot(x, y) raises for a None argument and for arrays of different   *)
(* lengths; strain[0] and stress[0] raise on an empty array and on None.   *)

generate_stress_strain_chart(sn, st) ==
    IF sn.none THEN "placeholder"
    ELSE IF Len(sn.a) > 1
    THEN IF st.none \/ Len(st.a) # Len(sn.a) THEN "placeholder" ELSE "chart"
    ELSE IF Len(sn.a) = 0 \/ st.none \/ Len(st.a) = 0 THEN "placeholder"
    ELSE "chart"

-----------------------------------------------------------------------------
(* Inputs of the two functions.                                            *)

\* arbitrary curves have at most MaxLen samples, structured ones MaxLong
MaxLen == 3

MaxLong == 11

\* strains 0.0016, 0.0024, 0.0028 and stresses -2500, 0, 5000 MPa
StrainValues == {4, 6, 7}

StressValues == {-1, 0, 2}

SeqsUpTo(S, k) == UNION {[1..n -> S] : n \in 0..k}

\* every pair of arrays (or None) of up to MaxLen samples, lengths free
ShortInputs ==
    {<<sn, st>> :
        sn \in {None} \cup {Arr(s) : s \in SeqsUpTo(StrainValues, MaxLen)},
        st \in {None} \cup {Arr(s) : s \in SeqsUpTo(StressValues, MaxLen)}}

\* strain profiles <<first, step>>: ascending from 0 and from 1, ascending
\* in steps of 2, constant 0, constant in the elastic region, descending
Profiles == {<<0, 1>>, <<1, 1>>, <<0, 2>>, <<0, 0>>, <<3, 0>>, <<9, -1>>}

Ramp(pr, n) == [i \in 1..n |-> pr[1] + pr[2] * (i - 1)]

\* stresses in up to three runs (a plateau, a step, a pulse) of two levels
Pulses(n) ==
    {[i \in 1..n |-> IF i <= a THEN v ELSE IF i <= b THEN w ELSE v] :
        a \in 0..n, b \in 0..n, v \in {-1, 0, 1}, w \in {-1, 0, 1}}

\* longer curves: a strain profile with a pulse of stress
LongInputs ==
    {<<Arr(Ramp(pr, Len(s))), Arr(s)>> :
        pr \in Profiles,
        s \in UNION {Pulses(n) : n \in (MaxLen + 1)..MaxLong}}

\* perfectly linear curves stress = k * strain; k = c * 6.25e6 MPa
LinearSlopes == {-1, 1, 2}

LinearInputs ==
    {<<Arr(Ramp(pr, n)), Arr([i \in 1..n |-> c * Ramp(pr, n)[i]])>> :
        pr \in {<<0, 1>>, <<1, 1>>}, n \in 2..MaxLong, c \in LinearSlopes}

Inputs == ShortInputs \cup LongInputs \cup LinearInputs

NoResults == [none |-> TRUE, res |-> <<>>, path |-> "", caught |-> FALSE]

Returned(o) ==
    [none |-> FALSE, res |-> o.res, path |-> o.path, caught |-> o.caught]

Threads == {1, 2}

NoData == [strain |-> None, stress |-> None, results |-> NoResults]

Idle == [op |-> "idle", step |-> 0, strain |-> None, stress |-> None]

-----------------------------------------------------------------------------
(* Spec: calculate_material_properties applied to every input.             *)

Init ==
    /\ \E in \in Inputs : strain = in[1] /\ stress = in[2]
    /\ pc = "call"
    /\ results = NoResults
    /\ chart = "none"
    /\ current_data = NoData
    /\ req = [t \in Threads |-> Idle]

Calculate ==
    /\ pc = "call"
    /\ results' = Returned(calculate_material_properties(strain, stress))
    /\ pc' = "returned"
    /\ UNCHANGED <<strain, stress, chart, current_data, req>>

Next == Calculate

Spec == Init /\ [][Next]_vars

-----------------------------------------------------------------------------
(* SpecChart: generate_stress_strain_chart applied to every short input.   *)

InitChart ==
    /\ \E in \in ShortInputs : strain = in[1] /\ stress = in[2]
    /\ pc = "call"
    /\ results = NoResults
    /\ chart = "none"
    /\ current_data = NoData
    /\ req = [t \in Threads |-> Idle]

Render ==
    /\ pc = "call"
    /\ chart' = generate_stress_strain_chart(strain, stress)
    /\ pc' = "rendered"
    /\ UNCHANGED <<strain, stress, results, current_data, req>>

NextChart == Render

SpecChart == InitChart /\ [][NextChart]_vars

-----------------------------------------------------------------------------
(* SpecServer: the request handlers that share current_data (lines 29-35), *)
(* run by concurrent threads of the server and interleaved between single  *)
(* reads and writes of current_data.  The fields material_type and         *)
(* filename, the parsing of the uploaded text and the responses are left   *)
(* out: a request carries the arrays it stores.  UploadCurve stands for a  *)
(* parsed file and ExampleCurve for the curve load_example generates.      *)

UploadCurve == [strain |-> Arr(<<4, 6>>), stress |-> Arr(<<1, 2>>)]

ExampleCurve == [strain |-> Arr(<<0, 5, 7>>), stress |-> Arr(<<0, 2, 3>>)]

Goto(t, op, step) == req' = [req EXCEPT ![t].op = op, ![t].step = step]

\* a request arrives at an idle thread
Start(t) ==
    /\ req[t].op = "idle"
    /\ \/ req' = [req EXCEPT ![t] = [op |-> "store", step |-> 1,
                     strain |-> UploadCurve.strain, stress |-> UploadCurve.stress]]
       \/ req' = [req EXCEPT ![t] = [op |-> "store", step |-> 1,
                     strain |-> ExampleCurve.strain, stress |-> ExampleCurve.stress]]
       \/ req' = [req EXCEPT ![t] = [Idle EXCEPT !.op = "analyze", !.step = 1]]
       \/ req' = [req EXCEPT ![t] = [Idle EXCEPT !.op = "clear", !.step = 1]]
    /\ UNCHANGED <<strain, stress, pc, results, chart, current_data>>

\* upload_csv lines 257-261 and load_example lines 316-320
StoreStep(t) ==
    /\ req[t].op = "store"
    /\ \/ /\ req[t].step = 1
          /\ current_data' = [current_data EXCEPT !.strain = req[t].strain]
          /\ Goto(t, "store", 2)
       \/ /\ req[t].step = 2
          /\ current_data' = [current_data EXCEPT !.stress = req[t].stress]
          /\ Goto(t, "store", 3)
       \/ /\ req[t].step = 3
          /\ current_data' = [current_data EXCEPT !.results = NoResults]
          /\ req' = [req EXCEPT ![t] = Idle]
    /\ UNCHANGED <<strain, stress, pc, results, chart>>

\* analyze lines 343-354
AnalyzeStep(t) ==
    /\ req[t].op = "analyze"
    /\ \/ /\ req[t].step = 1
          /\ IF current_data.strain.none
             THEN req' = [req EXCEPT ![t] = Idle]
             ELSE Goto(t, "analyze", 2)
          /\ UNCHANGED current_data
       \/ /\ req[t].step = 2
          /\ req' = [req EXCEPT ![t].strain = current_data.strain, ![t].step = 3]
          /\ UNCHANGED current_data
       \/ /\ req[t].step = 3
          /\ req' = [req EXCEPT ![t].stress = current_data.stress, ![t].step = 4]
          /\ UNCHANGED current_data
       \/ /\ req[t].step = 4
          /\ current_data' =
               [current_data EXCEPT !.results =
                  Returned(calculate_material_properties(req[t].strain,
                                                         req[t].stress))]
          /\ req' = [req EXCEPT ![t] = Idle]
    /\ UNCHANGED <<strain, stress, pc, results, chart>>

\* clear_data lines 490-493
ClearStep(t) ==
    /\ req[t].op = "clear"
    /\ \/ /\ req[t].step = 1
          /\ current_data' = [current_data EXCEPT !.strain = None]
          /\ Goto(t, "clear", 2)
       \/ /\ req[t].step = 2
          /\ current_data' = [current_data EXCEPT !.stress = None]
          /\ Goto(t, "clear", 3)
       \/ /\ req[t].step = 3
          /\ current_data' = [current_data EXCEPT !.results = NoResults]
          /\ req' = [req EXCEPT ![t] = Idle]
    /\ UNCHANGED <<strain, stress, pc, results, chart>>

InitServer ==
    /\ strain = None
    /\ stress = None
    /\ pc = "serving"
    /\ results = NoResults
    /\ chart = "none"
    /\ current_data = NoData
    /\ req = [t \in Threads |-> Idle]

NextServer ==
    \E t \in Threads : Start(t) \/ StoreStep(t) \/ AnalyzeStep(t) \/ ClearStep(t)

SpecServer == InitServer /\ [][NextServer]_vars

-----------------------------------------------------------------------------
(* Properties.                                                             *)

ReturnedNow == pc = "returned"

Computed == pc = "returned" /\ results.path = "computed"

Value(k) == results.res[k].value

\* the inputs are a curve: two arrays of the same length
IsCurve == ~strain.none /\ ~stress.none /\ Len(strain.a) = Len(stress.a)

AllZeroStress == \A i \in 1..Len(stress.a) : stress.a[i] = 0

NonNegative(r) == r.n >= 0

ClampZero(r) == IF r.n < 0 THEN R(0) ELSE r

ElasticSamples == {i \in 1..Len(strain.a) : strain.a[i] <= ElasticLimit}

\* the elastic samples that enter the fit: the first MaxFitSamples of them
FittedSamples ==
    {i \in ElasticSamples :
        Cardinality({j \in ElasticSamples : j <= i}) <= MaxFitSamples}

\* C1: whenever a step of the computation failed, the returned mapping is
\* the fixed fallback set: no result mixes computed values with a value
\* substituted for a failed step.
C1_AllOrNothing ==
    ReturnedNow /\ (results.caught \/ results.path = "fallback")
        => results.res = Fallback

C3_ModulusRecovery ==
    \A c \in {s \in LinearSlopes : s > 0} :
        /\ ReturnedNow
        /\ IsCurve
        /\ \A i \in 1..Len(strain.a) : stress.a[i] = c * strain.a[i]
        /\ Cardinality(ElasticSamples) > 5
        /\ \E i, j \in FittedSamples : strain.a[i] # strain.a[j]
        => Value("elastic_modulus") = R(c * 6250)

\* C4: with at most 5 samples at strain <= 0.002 the elastic modulus is
\* exactly 200 GPa, on the computed and on the fallback path.
C4_DefaultModulus ==
    ReturnedNow /\ ~strain.none /\ Cardinality(ElasticSamples) <= 5
        => Value("elastic_modulus") = R(200)

\* five elastic samples among more, and the result was computed
C4_Witness ==
    /\ Computed
    /\ Cardinality(ElasticSamples) = 5
    /\ Len(strain.a) > 5
    /\ Value("elastic_modulus") = R(200)

\* the distance of sample i from the offset line, modulus ym in GPa
OffsetDistance(ss, ym, i) ==
    RAbs(RSub(ss[i], RMulInt(RMulInt(ym, 160), strain.a[i] - ElasticLimit)))

\* the yield strength (MPa) the 0.2% offset rule gives for the curve
OffsetYield ==
    LET x  == strain.a
        ss == StressSmooth(stress.a)
        ym == YoungsModulus(x, ss).value
        V  == {i \in 1..Len(x) : x[i] > ElasticLimit}
        top == CHOOSE i \in 1..Len(x) : \A k \in 1..Len(x) : ~RLess(ss[i], ss[k])
    IN IF V # {}
       THEN LET j == CHOOSE j \in V :
                       /\ \A i \in V : ~RLess(OffsetDistance(ss, ym, i),
                                              OffsetDistance(ss, ym, j))
                       /\ \A i \in V : i < j =>
                             RLess(OffsetDistance(ss, ym, j),
                                   OffsetDistance(ss, ym, i))
            IN ClampZero(ToMPa(ss[j]))
       ELSE ClampZero(ToMPa(RDivInt(RMulInt(ss[top], 4), 5)))

\* C5: on a curve that is computed, the yield strength is stress_smooth at
\* the first sample, among those with strain > 0.002, nearest to the offset
\* line of the unclamped modulus, clamped at 0; without such a sample it is
\* 0.8 * max(stress_smooth), clamped at 0.
C5_OffsetYield ==
    Computed /\ IsCurve => Value("yield_strength") = OffsetYield

\* a smoothed, fitted curve whose yield sample is not the first one past
\* the elastic region
C5_Witness ==
    /\ Computed
    /\ IsCurve
    /\ Len(strain.a) > 10
    /\ Cardinality(ElasticSamples) > 5
    /\ \E i \in 1..Len(strain.a) : strain.a[i] > ElasticLimit
    /\ Value("yield_strength") # ClampZero(ToMPa(
          StressSmooth(stress.a)[CHOOSE i \in 1..Len(strain.a) :
                                    strain.a[i] > ElasticLimit]))
    /\ Value("yield_strength").n > 0

RECURSIVE TrapezoidSum(_, _, _)
\* the sum over i < k of (x[i+1] - x[i]) * (ss[i] + ss[i+1]) / 2
TrapezoidSum(x, ss, k) ==
    IF k <= 1 THEN R(0)
    ELSE RAdd(TrapezoidSum(x, ss, k - 1),
              RDivInt(RMulInt(RAdd(ss[k - 1], ss[k]), x[k] - x[k - 1]), 2))

CurveIntegral == TrapezoidSum(strain.a, StressSmooth(stress.a), Len(strain.a))

\* C6 as claimed: the toughness is the trapezoidal integral of stress_smooth
\* over strain divided by 1000, clamped at 0.
C6_ToughnessPerThousand ==
    Computed /\ IsCurve
        => Value("toughness") = ClampZero(RDivInt(CurveIntegral, 1000))

\* C6 amended: the toughness is the trapezoidal integral of stress_smooth
\* over strain divided by 1e6, clamped at 0.
C6_ToughnessPerMillion ==
    Computed /\ IsCurve
        => Value("toughness") = ClampZero(RDivInt(CurveIntegral, 1000000))

\* a smoothed curve with a positive integral
C6_Witness ==
    /\ Computed
    /\ IsCurve
    /\ Len(strain.a) > 10
    /\ Value("toughness").n > 0

ThreeZeros ==
    /\ Value("tensile_strength") = R(0)
    /\ Value("yield_strength") = R(0)
    /\ Value("toughness") = R(0)

\* C7 as claimed: a curve of at least one sample with all stresses 0 gets
\* tensile strength, yield strength and toughness 0.
C7_AllZeroFromOneSample ==
    ReturnedNow /\ IsCurve /\ Len(strain.a) >= 1 /\ AllZeroStress
        => ThreeZeros

\* the slope fit fails: more than 5 elastic samples, the fitted ones all at
\* strain 0
FitFails ==
    /\ Cardinality(ElasticSamples) > MinElasticCount
    /\ \A i \in FittedSamples : strain.a[i] = 0

\* C7 amended: a curve of at least two samples with all stresses 0 gets
\* tensile strength, yield strength and toughness 0, unless the slope fit
\* fails, and then the complete fallback set.
C7_AllZeroFromTwoSamples ==
    ReturnedNow /\ IsCurve /\ Len(strain.a) >= 2 /\ AllZeroStress
        => IF FitFails THEN results.res = Fallback ELSE ThreeZeros

\* an all-zero curve that went through smoothing and the fit
C7_Witness ==
    /\ Computed
    /\ IsCurve
    /\ AllZeroStress
    /\ Len(strain.a) > 10
    /\ Cardinality(ElasticSamples) > MinElasticCount
    /\ ThreeZeros

\* C8: a curve of exactly one sample (e, s) gets the complete fallback set
\* or a result with tensile strength s and fracture strain e.
C8_SingleSample ==
    /\ ReturnedNow
    /\ ~strain.none /\ ~stress.none
    /\ Len(strain.a) = 1 /\ Len(stress.a) = 1
    => \/ results.res = Fallback
       \/ /\ Value("tensile_strength") = ToMPa(R(stress.a[1]))
          /\ Value("fracture_strain") = ToStrain(strain.a[1])

\* a single sample of negative stress was answered
C8_Witness ==
    /\ ReturnedNow
    /\ ~strain.none /\ ~stress.none
    /\ Len(strain.a) = 1 /\ Len(stress.a) = 1
    /\ stress.a[1] < 0
    /\ results.res = Fallback

\* C9: arrays of different lengths get the placeholder image.
C9_MismatchedPlaceholder ==
    /\ pc = "rendered"
    /\ ~strain.none /\ ~stress.none
    /\ Len(strain.a) # Len(stress.a)
    => chart = "placeholder"

\* C10: stored results are those of the stored curve.
C10_ResultsBelong ==
    ~current_data.results.none =>
        /\ ~current_data.strain.none
        /\ current_data.results =
             Returned(calculate_material_properties(current_data.strain,
                                                    current_data.stress))

=============================================================================
